---- MODULE Spec2Model ----
(***************************************************************************)
(* git-pm: a file-backed task tracker.  One index document (pm/index.yml)  *)
(* holds the task list; one detail document (pm/tasks/NNN.md) per task     *)
(* holds summary, tags and description.  The model covers the Index        *)
(* methods of src/index.rs and the commands of src/main.rs.                *)
(*                                                                         *)
(* Strings the code inspects character by character (status arguments,     *)
(* entry words, file names) are sequences of one-character strings.        *)
(* Timestamps (Change.on) are not modelled: no operation reads them.       *)
(***************************************************************************)
EXTENDS Integers, Sequences, FiniteSets, TLC

\* ------------------------------------------------------------------ bounds

\* create_task is not called once the next id would pass MaxId.
MaxId == 3
\* move_task is not called once the task list holds MaxChanges changes in all.
MaxChanges == 3
\* At most MaxFaults storage faults are injected in one run.
MaxFaults == 1
\* The same two bounds for the runs of commands (SpecCli).
CliMaxId == 2
CliMaxChanges == 3
\* The longest task list sorted_tasks_with_status is applied to (SpecSort).
MaxSortLen == 3
\* The most entry words TaskDetail::new is given (SpecDetail).
MaxWords == 2
\* The most tasks the project holds when two commands start (SpecRace).
MaxRaceTasks == 1

VARIABLES
    index,    \* the in-memory Index of the running program: [meta, tasks]
              \* (SpecRace: one per invocation)
    file,     \* pm/index.yml: absent, unparsable, or a YAML document
    details,  \* pm/tasks/: file name -> content of the detail document
    call,     \* the last call, its arguments and what it returned
              \* (SpecRace: one per invocation, with its position)
    faults,   \* the number of storage faults injected so far
    assigned  \* history (SpecIds): the ids create_task has assigned so far

vars == <<index, file, details, call, faults, assigned>>

\* ------------------------------------------------------------------ strings

Upper == <<"A","B","C","D","E","F","G","H","I","J","K","L","M",
           "N","O","P","Q","R","S","T","U","V","W","X","Y","Z">>
Lower == <<"a","b","c","d","e","f","g","h","i","j","k","l","m",
           "n","o","p","q","r","s","t","u","v","w","x","y","z">>

lower_char(c) ==
    IF \E i \in 1..Len(Upper) : Upper[i] = c
    THEN Lower[CHOOSE i \in 1..Len(Upper) : Upper[i] = c]
    ELSE c

to_lowercase(s) == [i \in 1..Len(s) |-> lower_char(s[i])]

starts_with(w, c) == Len(w) > 0 /\ w[1] = c
ends_with(w, c) == Len(w) > 0 /\ w[Len(w)] = c

RECURSIVE take_while_not(_, _)
take_while_not(s, c) ==
    IF s = <<>> \/ s[1] = c THEN <<>>
    ELSE <<s[1]>> \o take_while_not(Tail(s), c)

RECURSIVE join(_, _)
join(words, sep) ==
    IF words = <<>> THEN <<>>
    ELSE IF Len(words) = 1 THEN words[1]
    ELSE words[1] \o sep \o join(Tail(words), sep)

DigitChar == <<"0","1","2","3","4","5","6","7","8","9">>

RECURSIVE decimal(_)
decimal(n) ==
    IF n < 10 THEN <<DigitChar[n + 1]>>
    ELSE Append(decimal(n \div 10), DigitChar[(n % 10) + 1])

RECURSIVE zero_pad(_, _)
zero_pad(s, width) == IF Len(s) >= width THEN s ELSE zero_pad(<<"0">> \o s, width)

\* ------------------------------------------------------------------ Status

Status == {"None", "Todo", "Doing", "Done"}

\* Faulty variant of from_str: every variant name is accepted.
Status_from_str_accepts_none(s) ==
    LET l == to_lowercase(s) IN
    IF l = <<"n","o","n","e">> THEN [ok |-> TRUE, status |-> "None"]
    ELSE IF l = <<"t","o","d","o">> THEN [ok |-> TRUE, status |-> "Todo"]
    ELSE IF l = <<"d","o","i","n","g">> THEN [ok |-> TRUE, status |-> "Doing"]
    ELSE IF l = <<"d","o","n","e">> THEN [ok |-> TRUE, status |-> "Done"]
    ELSE [ok |-> FALSE, status |-> "None"]

\* impl FromStr for Status: the lowercased argument is matched against the
\* three names; anything else is an error.
Status_from_str(s) ==
    LET l == to_lowercase(s) IN
    IF l = <<"t","o","d","o">> THEN [ok |-> TRUE, status |-> "Todo"]
    ELSE IF l = <<"d","o","i","n","g">> THEN [ok |-> TRUE, status |-> "Doing"]
    ELSE IF l = <<"d","o","n","e">> THEN [ok |-> TRUE, status |-> "Done"]
    ELSE [ok |-> FALSE, status |-> "None"]

\* ------------------------------------------------------------------ values

\* Option<u64>: <<>> is None, <<n>> is Some(n).
NoPriority == <<>>

Change(from, to) == [from |-> from, to |-> to]

ids_of(tasks) == {tasks[i].id : i \in 1..Len(tasks)}

Max(S) == CHOOSE m \in S : \A x \in S : x <= m

Index_new(name) == [meta |-> [name |-> name], tasks |-> <<>>]

\* ------------------------------------------------------------------ files

\* pm/index.yml.  kind "absent": no such file; "corrupt": a file a failed
\* write left truncated; "yaml": the document serde_yaml wrote.
AbsentFile == [kind |-> "absent", doc |-> <<>>]
CorruptFile == [kind |-> "corrupt", doc |-> <<>>]

is_file(f) == f.kind # "absent"

\* derive(Serialize): a struct is a mapping of its fields, an enum variant its
\* name, Option::None is null.
yaml_of_priority(p) ==
    IF p = <<>> THEN [null |-> TRUE, value |-> 0] ELSE [null |-> FALSE, value |-> p[1]]
yaml_of_task(t) ==
    [id |-> t.id, status |-> t.status, changes |-> t.changes,
     priority |-> yaml_of_priority(t.priority)]
to_yaml(idx) ==
    [kind |-> "yaml",
     doc |-> <<[meta |-> idx.meta,
                tasks |-> [i \in 1..Len(idx.tasks) |-> yaml_of_task(idx.tasks[i])]]>>]

priority_of_yaml(y) == IF y.null THEN <<>> ELSE <<y.value>>
task_of_yaml(y) ==
    [id |-> y.id, status |-> y.status, changes |-> y.changes,
     priority |-> priority_of_yaml(y.priority)]
from_yaml(f) ==
    [meta |-> f.doc[1].meta,
     tasks |-> [i \in 1..Len(f.doc[1].tasks) |-> task_of_yaml(f.doc[1].tasks[i])]]

\* format!("{:03}.md", id) under pm/tasks/
detail_path(task_id) == zero_pad(decimal(task_id), 3) \o <<".md">>

CorruptDetail == [kind |-> "corrupt", id |-> 0, summary |-> <<>>, tags |-> <<>>,
                  description |-> <<>>]

\* ------------------------------------------------------------------ TaskDetail

is_tag_marker(w) == starts_with(w, ":") /\ ends_with(w, ":")
not_tag_marker(w) == ~is_tag_marker(w)
tag_of(w) == take_while_not(Tail(w), ":")

TaskDetail_new(task_id, entry) ==
    LET marked == SelectSeq(entry, is_tag_marker) IN
    [kind |-> "detail",
     id |-> task_id,
     summary |-> join(SelectSeq(entry, not_tag_marker), <<" ">>),
     tags |-> [i \in 1..Len(marked) |-> tag_of(marked[i])],
     description |-> <<>>]

\* The injected faults of a storage operation:
\*   detail_create  File::create fails, nothing is written
\*   detail_write   a writeln! fails after File::create, the file is left partial
TaskDetail_save(detail, d, fault) ==
    LET path == detail_path(detail.id) IN
    IF fault = "detail_create" THEN [details |-> d, result |-> "creating file"]
    ELSE IF fault = "detail_write"
    THEN [details |-> [p \in DOMAIN d \cup {path} |->
                          IF p = path THEN CorruptDetail ELSE d[p]],
          result |-> "io error"]
    ELSE [details |-> [p \in DOMAIN d \cup {path} |-> IF p = path THEN detail ELSE d[p]],
          result |-> "Ok"]

\* ------------------------------------------------------------------ Index

\*   index_create   std::fs::write fails opening the file, nothing is written
\*   index_write    std::fs::write fails after truncating the file
\* Faulty variant of save: the existence guard is missing.
Index_save_ignores_force(idx, f, force, fault) ==
    IF fault = "index_create" THEN [file |-> f, result |-> "writing index"]
    ELSE IF fault = "index_write" THEN [file |-> CorruptFile, result |-> "writing index"]
    ELSE [file |-> to_yaml(idx), result |-> "Ok"]

Index_save(idx, f, force, fault) ==
    IF is_file(f) /\ ~force THEN [file |-> f, result |-> "index already exists"]
    ELSE IF fault = "index_create" THEN [file |-> f, result |-> "writing index"]
    ELSE IF fault = "index_write" THEN [file |-> CorruptFile, result |-> "writing index"]
    ELSE [file |-> to_yaml(idx), result |-> "Ok"]

\* Faulty variants of next_id: the length of the list, not its largest id; no
\* + 1 for the empty list; the smallest id no task has.
next_id_by_len(tasks) == Len(tasks) + 1

next_id_from_zero(tasks) == IF tasks = <<>> THEN 0 ELSE Max(ids_of(tasks)) + 1

next_id_smallest_free(tasks) ==
    CHOOSE n \in 1..(Len(tasks) + 1) :
        /\ n \notin ids_of(tasks)
        /\ \A k \in 1..(n - 1) : k \in ids_of(tasks)

\* self.tasks.iter().map(|t| t.id).max().unwrap_or(0) + 1
next_id(tasks) == IF tasks = <<>> THEN 1 ELSE Max(ids_of(tasks)) + 1

\* iter().position(|t| t.id == task_id): the first match, 0 for None
position(tasks, task_id) ==
    IF \E i \in 1..Len(tasks) : tasks[i].id = task_id
    THEN CHOOSE i \in 1..Len(tasks) :
            /\ tasks[i].id = task_id
            /\ \A j \in 1..(i - 1) : tasks[j].id # task_id
    ELSE 0

\* Option<&Task>: <<>> is None, <<t>> is Some(t).
get_task(idx, task_id) ==
    LET pos == position(idx.tasks, task_id) IN
    IF pos = 0 THEN <<>> ELSE <<idx.tasks[pos]>>

remove_at(s, i) == SubSeq(s, 1, i - 1) \o SubSeq(s, i + 1, Len(s))

\* Faulty variant of create_task: the detail file is written before the index.
Index_create_task_detail_first(idx, f, d, entry, fault) ==
    LET task == [id |-> next_id(idx.tasks),
                 status |-> "Todo",
                 changes |-> <<Change("None", "Todo")>>,
                 priority |-> NoPriority]
        detail == TaskDetail_new(task.id, entry)
        idx1 == [idx EXCEPT !.tasks = Append(@, task)]
        w == TaskDetail_save(detail, d, fault)
        s == Index_save(idx1, f, TRUE, fault)
    IN  IF w.result # "Ok"
        THEN [index |-> idx1, file |-> f, details |-> w.details,
              result |-> "saving task detail"]
        ELSE IF s.result # "Ok"
        THEN [index |-> idx1, file |-> s.file, details |-> w.details, result |-> "saving"]
        ELSE [index |-> idx1, file |-> s.file, details |-> w.details, result |-> "Ok"]

Index_create_task(idx, f, d, entry, fault) ==
    LET task == [id |-> next_id(idx.tasks),
                 status |-> "Todo",
                 changes |-> <<Change("None", "Todo")>>,
                 priority |-> NoPriority]
        detail == TaskDetail_new(task.id, entry)
        idx1 == [idx EXCEPT !.tasks = Append(@, task)]
        s == Index_save(idx1, f, TRUE, fault)
        w == TaskDetail_save(detail, d, fault)
    IN  IF s.result # "Ok"
        THEN [index |-> idx1, file |-> s.file, details |-> d, result |-> "saving"]
        ELSE IF w.result # "Ok"
        THEN [index |-> idx1, file |-> s.file, details |-> w.details,
              result |-> "saving task detail"]
        ELSE [index |-> idx1, file |-> s.file, details |-> w.details, result |-> "Ok"]

\* Faulty variants of move_task: the status is not updated; the change is
\* built after the status was updated; the same-status check is missing; the
\* index is saved before the not-found check; the last change is overwritten
\* instead of a new one appended.
Index_move_task_replaces_last(idx, f, d, task_id, new_status, fault) ==
    LET pos == position(idx.tasks, task_id) IN
    IF pos = 0
    THEN [index |-> idx, file |-> f, details |-> d, result |-> "could not find task"]
    ELSE
        LET t == idx.tasks[pos]
            idx1 == IF t.status = new_status
                    THEN idx
                    ELSE [idx EXCEPT !.tasks[pos] =
                            [t EXCEPT !.changes[Len(t.changes)] =
                                          Change(@.from, new_status),
                                      !.status = new_status]]
            s == Index_save(idx1, f, TRUE, fault)
        IN  [index |-> idx1, file |-> s.file, details |-> d,
             result |-> IF s.result = "Ok" THEN "Ok" ELSE "saving"]

Index_move_task_saves_unfound(idx, f, d, task_id, new_status, fault) ==
    LET pos == position(idx.tasks, task_id) IN
    IF pos = 0
    THEN [index |-> idx, file |-> Index_save(idx, f, TRUE, fault).file, details |-> d,
          result |-> "could not find task"]
    ELSE
        LET t == idx.tasks[pos]
            idx1 == IF t.status = new_status
                    THEN idx
                    ELSE [idx EXCEPT !.tasks[pos] =
                            [t EXCEPT !.changes = Append(@, Change(t.status, new_status)),
                                      !.status = new_status]]
            s == Index_save(idx1, f, TRUE, fault)
        IN  [index |-> idx1, file |-> s.file, details |-> d,
             result |-> IF s.result = "Ok" THEN "Ok" ELSE "saving"]

Index_move_task_keeps_status(idx, f, d, task_id, new_status, fault) ==
    LET pos == position(idx.tasks, task_id) IN
    IF pos = 0
    THEN [index |-> idx, file |-> f, details |-> d, result |-> "could not find task"]
    ELSE
        LET t == idx.tasks[pos]
            idx1 == IF t.status = new_status
                    THEN idx
                    ELSE [idx EXCEPT !.tasks[pos] =
                            [t EXCEPT !.changes = Append(@, Change(t.status, new_status))]]
            s == Index_save(idx1, f, TRUE, fault)
        IN  [index |-> idx1, file |-> s.file, details |-> d,
             result |-> IF s.result = "Ok" THEN "Ok" ELSE "saving"]

Index_move_task_stale_from(idx, f, d, task_id, new_status, fault) ==
    LET pos == position(idx.tasks, task_id) IN
    IF pos = 0
    THEN [index |-> idx, file |-> f, details |-> d, result |-> "could not find task"]
    ELSE
        LET t == idx.tasks[pos]
            idx1 == IF t.status = new_status
                    THEN idx
                    ELSE [idx EXCEPT !.tasks[pos] =
                            [t EXCEPT !.changes = Append(@, Change(new_status, new_status)),
                                      !.status = new_status]]
            s == Index_save(idx1, f, TRUE, fault)
        IN  [index |-> idx1, file |-> s.file, details |-> d,
             result |-> IF s.result = "Ok" THEN "Ok" ELSE "saving"]

Index_move_task_always_records(idx, f, d, task_id, new_status, fault) ==
    LET pos == position(idx.tasks, task_id) IN
    IF pos = 0
    THEN [index |-> idx, file |-> f, details |-> d, result |-> "could not find task"]
    ELSE
        LET t == idx.tasks[pos]
            idx1 == [idx EXCEPT !.tasks[pos] =
                        [t EXCEPT !.changes = Append(@, Change(t.status, new_status)),
                                  !.status = new_status]]
            s == Index_save(idx1, f, TRUE, fault)
        IN  [index |-> idx1, file |-> s.file, details |-> d,
             result |-> IF s.result = "Ok" THEN "Ok" ELSE "saving"]

Index_move_task(idx, f, d, task_id, new_status, fault) ==
    LET pos == position(idx.tasks, task_id) IN
    IF pos = 0
    THEN [index |-> idx, file |-> f, details |-> d, result |-> "could not find task"]
    ELSE
        LET t == idx.tasks[pos]
            idx1 == IF t.status = new_status
                    THEN idx
                    ELSE [idx EXCEPT !.tasks[pos] =
                            [t EXCEPT !.changes = Append(@, Change(t.status, new_status)),
                                      !.status = new_status]]
            s == Index_save(idx1, f, TRUE, fault)
        IN  [index |-> idx1, file |-> s.file, details |-> d,
             result |-> IF s.result = "Ok" THEN "Ok" ELSE "saving"]

\* Faulty variants of delete_task: the entry stays in the list; the detail
\* file stays; the entry is removed before the file deletion is attempted.
Index_delete_task_keeps_entry(idx, f, d, task_id, fault) ==
    LET path == detail_path(task_id) IN
    IF path \notin DOMAIN d \/ fault = "detail_remove"
    THEN [index |-> idx, file |-> f, details |-> d, result |-> "deleting file"]
    ELSE
        LET d1 == [p \in DOMAIN d \ {path} |-> d[p]]
            s == Index_save(idx, f, TRUE, fault)
        IN  [index |-> idx, file |-> s.file, details |-> d1,
             result |-> IF s.result = "Ok" THEN "Ok" ELSE "saving"]

Index_delete_task_keeps_file(idx, f, d, task_id, fault) ==
    LET path == detail_path(task_id) IN
    IF path \notin DOMAIN d \/ fault = "detail_remove"
    THEN [index |-> idx, file |-> f, details |-> d, result |-> "deleting file"]
    ELSE
        LET pos == position(idx.tasks, task_id)
            idx1 == IF pos # 0 THEN [idx EXCEPT !.tasks = remove_at(@, pos)] ELSE idx
            s == Index_save(idx1, f, TRUE, fault)
        IN  [index |-> idx1, file |-> s.file, details |-> d,
             result |-> IF s.result = "Ok" THEN "Ok" ELSE "saving"]

Index_delete_task_entry_first(idx, f, d, task_id, fault) ==
    LET path == detail_path(task_id)
        pos == position(idx.tasks, task_id)
        idx1 == IF pos # 0 THEN [idx EXCEPT !.tasks = remove_at(@, pos)] ELSE idx
    IN
    IF path \notin DOMAIN d \/ fault = "detail_remove"
    THEN [index |-> idx1, file |-> f, details |-> d, result |-> "deleting file"]
    ELSE
        LET d1 == [p \in DOMAIN d \ {path} |-> d[p]]
            s == Index_save(idx1, f, TRUE, fault)
        IN  [index |-> idx1, file |-> s.file, details |-> d1,
             result |-> IF s.result = "Ok" THEN "Ok" ELSE "saving"]

\*   detail_remove  std::fs::remove_file fails on a file that exists
Index_delete_task(idx, f, d, task_id, fault) ==
    LET path == detail_path(task_id) IN
    IF path \notin DOMAIN d \/ fault = "detail_remove"
    THEN [index |-> idx, file |-> f, details |-> d, result |-> "deleting file"]
    ELSE
        LET d1 == [p \in DOMAIN d \ {path} |-> d[p]]
            pos == position(idx.tasks, task_id)
            idx1 == IF pos # 0 THEN [idx EXCEPT !.tasks = remove_at(@, pos)] ELSE idx
            s == Index_save(idx1, f, TRUE, fault)
        IN  [index |-> idx1, file |-> s.file, details |-> d1,
             result |-> IF s.result = "Ok" THEN "Ok" ELSE "saving"]

\* ------------------------------------------------------------------ sorting

\* Ord::cmp on u64
cmp(x, y) == IF x < y THEN "Less" ELSE IF x > y THEN "Greater" ELSE "Equal"

\* Faulty variants of the comparator: two priorities compared the other way
\* round; a task with a priority ordered before one without; two tasks without
\* priority left in list order.
by_priority_descending(a, b) ==
    IF a.priority # <<>> /\ b.priority # <<>> THEN cmp(b.priority[1], a.priority[1])
    ELSE IF a.priority # <<>> THEN "Greater"
    ELSE IF b.priority # <<>> THEN "Less"
    ELSE cmp(a.id, b.id)

by_priority_some_first(a, b) ==
    IF a.priority # <<>> /\ b.priority # <<>> THEN cmp(a.priority[1], b.priority[1])
    ELSE IF a.priority # <<>> THEN "Less"
    ELSE IF b.priority # <<>> THEN "Greater"
    ELSE cmp(a.id, b.id)

by_priority_ignores_id(a, b) ==
    IF a.priority # <<>> /\ b.priority # <<>> THEN cmp(a.priority[1], b.priority[1])
    ELSE IF a.priority # <<>> THEN "Greater"
    ELSE IF b.priority # <<>> THEN "Less"
    ELSE "Equal"

\* The closure given to sort_by: match (a.priority, b.priority)
by_priority(a, b) ==
    IF a.priority # <<>> /\ b.priority # <<>> THEN cmp(a.priority[1], b.priority[1])
    ELSE IF a.priority # <<>> THEN "Greater"
    ELSE IF b.priority # <<>> THEN "Less"
    ELSE cmp(a.id, b.id)

\* slice::sort_by is a stable sort: elements that compare Equal keep their
\* order.  t goes in front of the first element it is Less than.
RECURSIVE insert_sorted(_, _)
insert_sorted(s, t) ==
    IF s = <<>> THEN <<t>>
    ELSE IF by_priority(t, s[1]) = "Less" THEN <<t>> \o s
    ELSE <<s[1]>> \o insert_sorted(Tail(s), t)

RECURSIVE sort_by(_)
sort_by(s) ==
    IF s = <<>> THEN <<>>
    ELSE insert_sorted(sort_by(SubSeq(s, 1, Len(s) - 1)), s[Len(s)])

\* Faulty variant of sorted_tasks_with_status: an empty selection is returned
\* as Some(empty).
sorted_tasks_with_status_no_sentinel(idx, status) ==
    LET tasks == SelectSeq(idx.tasks, LAMBDA t : t.status = status)
    IN  <<sort_by(tasks)>>

\* Option<Vec<Task>>: <<>> is None, <<tasks>> is Some(tasks).
sorted_tasks_with_status(idx, status) ==
    LET tasks == SelectSeq(idx.tasks, LAMBDA t : t.status = status)
    IN  IF tasks = <<>> THEN <<>> ELSE <<sort_by(tasks)>>

\* ------------------------------------------------------------------ inputs

ProjectName == "proj"

\* Entry words of `add`: with and without a tag marker.
Entries == { <<<<"A">>, <<":","t",":">>, <<"b">>>> }

SaveFaults == {"none", "index_create", "index_write"}
CreateFaults == SaveFaults \cup {"detail_create", "detail_write"}
DeleteFaults == SaveFaults \cup {"detail_remove"}

TaskIds == 1..MaxId

status_of(idx, task_id) ==
    LET t == get_task(idx, task_id) IN IF t = <<>> THEN "Absent" ELSE t[1].status

\* The record of a call: `was` is the status the task had before the call,
\* `arg` the status argument as typed, `storage` whether a storage operation
\* returned an error during the call, `exit` the exit status of the process
\* (-1: a method call, no process has exited).
Call(op, id, status, force, was, result) ==
    [op |-> op, id |-> id, status |-> status, force |-> force, was |-> was,
     result |-> result, arg |-> <<>>,
     storage |-> result \notin {"Ok", "could not find task"}, exit |-> -1]

CliCall(op, id, status, force, arg, r) ==
    [op |-> op, id |-> id, status |-> status, force |-> force, was |-> "Absent",
     result |-> r.result, arg |-> arg, storage |-> r.storage, exit |-> r.exit]

\* ------------------------------------------------------------------ actions
\* The methods of Index called on one Index value.

Apply(r, c, fault) ==
    /\ fault # "none" => faults < MaxFaults
    /\ index' = r.index
    /\ file' = r.file
    /\ details' = r.details
    /\ call' = c
    /\ faults' = IF fault = "none" THEN faults ELSE faults + 1
    /\ assigned' = assigned

RECURSIVE n_changes(_)
n_changes(tasks) ==
    IF tasks = <<>> THEN 0 ELSE Len(tasks[1].changes) + n_changes(Tail(tasks))

save ==
    \E force \in BOOLEAN, fault \in SaveFaults :
        LET s == Index_save(index, file, force, fault) IN
        Apply([index |-> index, file |-> s.file, details |-> details, result |-> s.result],
              Call("save", 0, "None", force, "Absent", s.result), fault)

create_task ==
    \E entry \in Entries, fault \in CreateFaults :
        /\ next_id(index.tasks) <= MaxId
        /\ n_changes(index.tasks) < MaxChanges
        /\ LET r == Index_create_task(index, file, details, entry, fault) IN
           Apply(r, Call("create_task", next_id(index.tasks), "Todo", TRUE, "Absent",
                         r.result), fault)

move_task ==
    \E task_id \in TaskIds, new_status \in Status, fault \in SaveFaults :
        /\ n_changes(index.tasks) < MaxChanges
        /\ LET r == Index_move_task(index, file, details, task_id, new_status, fault) IN
           Apply(r, Call("move_task", task_id, new_status, TRUE,
                         status_of(index, task_id), r.result), fault)

delete_task ==
    \E task_id \in TaskIds, fault \in DeleteFaults :
        LET r == Index_delete_task(index, file, details, task_id, fault) IN
        Apply(r, Call("delete_task", task_id, "None", TRUE, status_of(index, task_id),
                      r.result), fault)

\* Index::new in a fresh project: an empty task list, nothing on disk yet.
Init ==
    /\ index = Index_new(ProjectName)
    /\ file = AbsentFile
    /\ details = <<>>
    /\ call = Call("new", 0, "None", FALSE, "Absent", "Ok")
    /\ faults = 0
    /\ assigned = {}

Next == save \/ create_task \/ move_task \/ delete_task

Spec == Init /\ [][Next]_vars

\* ------------------------------------------------------------------ ids
\* create_task and delete_task called in any order on one Index, with the ids
\* create_task has assigned kept in `assigned`.

ApplyIds(r, c, fault) ==
    /\ fault # "none" => faults < MaxFaults
    /\ index' = r.index
    /\ file' = r.file
    /\ details' = r.details
    /\ call' = c
    /\ faults' = IF fault = "none" THEN faults ELSE faults + 1
    /\ assigned' = IF c.op = "create_task" THEN assigned \cup {c.id} ELSE assigned

ids_create_task ==
    \E entry \in Entries, fault \in CreateFaults :
        /\ next_id(index.tasks) <= MaxId
        /\ LET r == Index_create_task(index, file, details, entry, fault) IN
           ApplyIds(r, Call("create_task", r.index.tasks[Len(r.index.tasks)].id, "Todo",
                            TRUE, "Absent", r.result), fault)

ids_delete_task ==
    \E task_id \in TaskIds, fault \in DeleteFaults :
        LET r == Index_delete_task(index, file, details, task_id, fault) IN
        ApplyIds(r, Call("delete_task", task_id, "None", TRUE, status_of(index, task_id),
                         r.result), fault)

NextIds == ids_create_task \/ ids_delete_task

SpecIds == Init /\ [][NextIds]_vars

\* ------------------------------------------------------------------ commands
\* src/main.rs: every command is a process of its own that loads the index
\* from pm/index.yml, calls one method and exits.

\* The Index a command that loaded none holds.
EmptyIndex == Index_new("")

\*   index_read / show_read   read_to_string fails on pm/index.yml
Index_load(f, fails) ==
    IF f.kind = "absent" \/ fails
    THEN [ok |-> FALSE, index |-> EmptyIndex, result |-> "reading config file"]
    ELSE IF f.kind = "corrupt"
    THEN [ok |-> FALSE, index |-> EmptyIndex, result |-> "parsing index"]
    ELSE [ok |-> TRUE, index |-> from_yaml(f), result |-> "Ok"]

Outcome(result, storage, exit) == [result |-> result, storage |-> storage, exit |-> exit]

\*   detail_read   read_to_string fails on the detail file
\* A detail file a failed write left empty has no "---" part: unwrap panics.
Task_detail(t, d, fails) ==
    LET path == detail_path(t.id) IN
    IF path \notin DOMAIN d \/ fails THEN Outcome("reading task detail", TRUE, 1)
    ELSE IF d[path].kind = "corrupt" THEN Outcome("panic", FALSE, 101)
    ELSE Outcome("Ok", FALSE, 0)

RECURSIVE insert_by_id(_, _)
insert_by_id(sorted, t) ==
    IF sorted = <<>> THEN <<t>>
    ELSE IF t.id < sorted[1].id THEN <<t>> \o sorted
    ELSE <<sorted[1]>> \o insert_by_id(Tail(sorted), t)

RECURSIVE sort_by_id(_)
sort_by_id(tasks) ==
    IF tasks = <<>> THEN <<>>
    ELSE insert_by_id(sort_by_id(SubSeq(tasks, 1, Len(tasks) - 1)), tasks[Len(tasks)])

\* The tasks `show` prints, in the order it reads their details.
printed(tasks) ==
    sort_by_id(SelectSeq(tasks, LAMBDA t : t.status = "Todo"))
    \o sort_by_id(SelectSeq(tasks, LAMBDA t : t.status = "Doing"))
    \o sort_by_id(SelectSeq(tasks, LAMBDA t : t.status = "Done"))

RECURSIVE read_details(_, _, _)
read_details(tasks, d, fails) ==
    IF tasks = <<>> THEN Outcome("Ok", FALSE, 0)
    ELSE LET r == Task_detail(tasks[1], d, fails) IN
         IF r.result # "Ok" THEN r ELSE read_details(Tail(tasks), d, fails)

\* task_id: <<>> is None, <<id>> is Some(id).
Manager_show(f, d, task_id, fault) ==
    LET l == Index_load(f, fault = "show_read") IN
    IF ~l.ok THEN Outcome("loading index", TRUE, 1)
    ELSE IF task_id # <<>>
    THEN LET t == get_task(l.index, task_id[1]) IN
         IF t = <<>> THEN Outcome("panic", FALSE, 101)
         ELSE LET r == Task_detail(t[1], d, fault = "detail_read") IN
              IF r.result = "reading task detail"
              THEN Outcome("fetching task detail", TRUE, 1)
              ELSE r
    ELSE LET r == read_details(printed(l.index.tasks), d, fault = "detail_read") IN
         IF r.result = "reading task detail"
         THEN Outcome("reading task detail for task", TRUE, 1)
         ELSE r

Exited(idx, f, d, o) ==
    [index |-> idx, file |-> f, details |-> d,
     result |-> o.result, storage |-> o.storage, exit |-> o.exit]

\* After a method returned Ok the command prints the board: self.show(None).
then_show(r, fault) ==
    LET o == Manager_show(r.file, r.details, <<>>, fault) IN
    Exited(r.index, r.file, r.details,
           IF o.result = "Ok" \/ o.result = "panic" THEN o ELSE Outcome("showing", TRUE, 1))

\* An error of save that is not PmError::IndexExists falls out of the match
\* and init returns Ok(()).
Manager_init(f, d, name, force, fault) ==
    LET idx == Index_new(name)
        s == Index_save(idx, f, force, fault)
    IN  IF s.result = "Ok" THEN Exited(idx, s.file, d, Outcome("Ok", FALSE, 0))
        ELSE IF s.result = "index already exists"
        THEN Exited(idx, s.file, d, Outcome("index already exists", TRUE, 1))
        ELSE Exited(idx, s.file, d, Outcome("Ok", TRUE, 0))

Manager_add(f, d, entry, fault) ==
    LET l == Index_load(f, fault = "index_read") IN
    IF ~l.ok THEN Exited(EmptyIndex, f, d, Outcome("loading index", TRUE, 1))
    ELSE LET r == Index_create_task(l.index, f, d, entry, fault) IN
         IF r.result # "Ok"
         THEN Exited(r.index, r.file, r.details, Outcome("creating task", TRUE, 1))
         ELSE then_show(r, fault)

Manager_move_task(f, d, task_id, status, fault) ==
    LET l == Index_load(f, fault = "index_read") IN
    IF ~l.ok THEN Exited(EmptyIndex, f, d, Outcome("loading index", TRUE, 1))
    ELSE LET r == Index_move_task(l.index, f, d, task_id, status, fault) IN
         IF r.result # "Ok"
         THEN Exited(r.index, r.file, r.details,
                     Outcome("moving task", r.result # "could not find task", 1))
         ELSE then_show(r, fault)

Manager_delete_task(f, d, task_id, fault) ==
    LET l == Index_load(f, fault = "index_read") IN
    IF ~l.ok THEN Exited(EmptyIndex, f, d, Outcome("loading index", TRUE, 1))
    ELSE LET r == Index_delete_task(l.index, f, d, task_id, fault) IN
         IF r.result # "Ok"
         THEN Exited(r.index, r.file, r.details,
                     Outcome("deleting task from index", TRUE, 1))
         ELSE then_show(r, fault)

\* The editor is a program of its own: `editor` is how it ends.
\*   "spawn"  it cannot be started     "status"  it exits with a failure
\*   "quit"   it exits 0
\* What it writes into the description of the detail file is not modelled.
Manager_edit_task(f, d, task_id, fault, editor) ==
    LET l == Index_load(f, fault = "index_read") IN
        IF ~l.ok THEN Exited(EmptyIndex, f, d, Outcome("loading index", TRUE, 1))
        ELSE IF editor = "spawn"
        THEN Exited(l.index, f, d, Outcome("spawning editor", FALSE, 1))
        ELSE IF editor = "status"
        THEN Exited(l.index, f, d, Outcome("editor command exited with status", FALSE, 1))
        ELSE Exited(l.index, f, d, Outcome("Ok", FALSE, 0))

\* main: an Err of the command ends the process with exit status 1; `result`
\* keeps the message of the Manager method, below the context main adds.
\* Opts::Move: structopt parses the status argument with Status::from_str and
\* exits with status 1 when it is refused, before any method is called.
Opts_Move(f, d, task_id, arg, fault) ==
    LET parsed == Status_from_str(arg) IN
    IF ~parsed.ok THEN Exited(EmptyIndex, f, d, Outcome("invalid status", FALSE, 1))
    ELSE Manager_move_task(f, d, task_id, parsed.status, fault)

Opts_Start(f, d, task_id, fault) == Manager_move_task(f, d, task_id, "Doing", fault)

Opts_Finish(f, d, task_id, fault) == Manager_move_task(f, d, task_id, "Done", fault)

\* ------------------------------------------------------------------ command inputs

CliIds == 1..CliMaxId

StatusArgs ==
    { <<"t","o","d","o">>, <<"D","O","N","E">>, <<"N","o","n","e">> }

\* After a method returned Ok, a failing read of the index and a failing read
\* of a detail file end the command the same way ("showing"): the commands
\* that change the index are given the first only.
ReadFaults == {"none", "show_read", "detail_read"}
AddFaults == CreateFaults \cup {"index_read", "show_read"}
MoveFaults == SaveFaults \cup {"index_read", "show_read"}
RemoveFaults == DeleteFaults \cup {"index_read", "show_read"}
EditFaults == {"none", "index_read"}
Editors == {"spawn", "status", "quit"}


in_bounds_to_add(f) ==
    f.kind = "yaml" =>
        /\ next_id(from_yaml(f).tasks) <= CliMaxId
        /\ n_changes(from_yaml(f).tasks) < CliMaxChanges

in_bounds_to_move(f) ==
    f.kind = "yaml" => n_changes(from_yaml(f).tasks) < CliMaxChanges

ApplyCli(r, c, fault) ==
    /\ fault # "none" => faults < MaxFaults
    /\ index' = r.index
    /\ file' = r.file
    /\ details' = r.details
    /\ call' = c
    /\ faults' = IF fault = "none" THEN faults ELSE faults + 1
    /\ assigned' = assigned

cmd_init ==
    \E force \in BOOLEAN, fault \in SaveFaults :
        LET r == Manager_init(file, details, ProjectName, force, fault) IN
        ApplyCli(r, CliCall("init", 0, "None", force, <<>>, r), fault)

cmd_add ==
    \E entry \in Entries, fault \in AddFaults :
        /\ in_bounds_to_add(file)
        /\ LET r == Manager_add(file, details, entry, fault) IN
           ApplyCli(r, CliCall("add", 0, "None", FALSE, <<>>, r), fault)

cmd_show ==
    \E task_id \in {<<>>} \cup {<<i>> : i \in CliIds}, fault \in ReadFaults :
        LET o == Manager_show(file, details, task_id, fault)
            r == Exited(EmptyIndex, file, details, o)
        IN  ApplyCli(r, CliCall("show", IF task_id = <<>> THEN 0 ELSE task_id[1],
                                "None", FALSE, <<>>, r), fault)

cmd_move ==
    \E task_id \in CliIds, arg \in StatusArgs, fault \in MoveFaults :
        /\ in_bounds_to_move(file)
        /\ LET r == Opts_Move(file, details, task_id, arg, fault) IN
           ApplyCli(r, CliCall("move", task_id, Status_from_str(arg).status, FALSE,
                               arg, r), fault)

cmd_delete ==
    \E task_id \in CliIds, fault \in RemoveFaults :
        LET r == Manager_delete_task(file, details, task_id, fault) IN
        ApplyCli(r, CliCall("delete", task_id, "None", FALSE, <<>>, r), fault)

cmd_edit ==
    \E task_id \in CliIds, fault \in EditFaults, editor \in Editors :
        LET r == Manager_edit_task(file, details, task_id, fault, editor) IN
        ApplyCli(r, CliCall("edit", task_id, "None", FALSE, <<>>, r), fault)

cmd_start ==
    \E task_id \in CliIds, fault \in MoveFaults :
        /\ in_bounds_to_move(file)
        /\ LET r == Opts_Start(file, details, task_id, fault) IN
           ApplyCli(r, CliCall("start", task_id, "Doing", FALSE, <<>>, r), fault)

cmd_finish ==
    \E task_id \in CliIds, fault \in MoveFaults :
        /\ in_bounds_to_move(file)
        /\ LET r == Opts_Finish(file, details, task_id, fault) IN
           ApplyCli(r, CliCall("finish", task_id, "Done", FALSE, <<>>, r), fault)

\* A git repository in which no command has run yet.
InitCli ==
    /\ index = EmptyIndex
    /\ file = AbsentFile
    /\ details = <<>>
    /\ call = Call("new", 0, "None", FALSE, "Absent", "Ok")
    /\ faults = 0
    /\ assigned = {}

NextCli ==
    \/ cmd_init \/ cmd_add \/ cmd_show \/ cmd_move
    \/ cmd_delete \/ cmd_edit \/ cmd_start \/ cmd_finish

SpecCli == InitCli /\ [][NextCli]_vars

\* ------------------------------------------------------------------ sorted retrieval
\* sorted_tasks_with_status applied to an Index loaded from an index file
\* whose tasks carry priorities (no command sets one: the file was edited, or
\* the Index built as the tests build it).  The list is in any order, ids are
\* unique, and every history ends in the task's status.

Priorities == {<<>>, <<1>>, <<2>>}
SortStatuses == {"Todo", "Doing"}

sort_task(id, status, priority) ==
    [id |-> id, status |-> status,
     changes |-> IF status = "Todo" THEN <<Change("None", "Todo")>>
                 ELSE <<Change("None", "Todo"), Change("Todo", status)>>,
     priority |-> priority]

\* The task lists of n tasks.
SortLists(n) ==
    { [i \in 1..n |-> sort_task(ids[i], st[i], pr[i])] :
        ids \in {f \in [1..n -> 1..MaxSortLen] : \A i, j \in 1..n : f[i] = f[j] => i = j},
        st \in [1..n -> SortStatuses],
        pr \in [1..n -> Priorities] }

\* The record of a call of sorted_tasks_with_status: `out` is what it returned.
SortCall(op, status, out) == [op |-> op, status |-> status, out |-> out]

InitSort ==
    /\ \E n \in 0..MaxSortLen :
          \E tasks \in SortLists(n) :
              index = [meta |-> [name |-> ProjectName], tasks |-> tasks]
    /\ file = to_yaml(index)
    /\ details = <<>>
    /\ call = SortCall("load", "None", <<>>)
    /\ faults = 0
    /\ assigned = {}

sorted_tasks ==
    \E status \in Status :
        /\ call' = SortCall("sorted_tasks_with_status", status,
                            sorted_tasks_with_status(index, status))
        /\ UNCHANGED <<index, file, details, faults, assigned>>

NextSort == sorted_tasks

SpecSort == InitSort /\ [][NextSort]_vars

\* ------------------------------------------------------------------ detail of an entry
\* TaskDetail::new applied to any entry of up to MaxWords words.

\* Plain words, and words with ':' first, last, both, inside, or alone.
Words == { <<"A">>, <<"b">>, <<":","t",":">>, <<":","a",":","b",":">>,
           <<":">>, <<":",":">>, <<":","x">>, <<"x",":">> }

\* The entries of n words.
WordLists(n) == [1..n -> Words]

\* The record of a call of TaskDetail::new: `out` is the TaskDetail it built.
DetailCall(op, id, entry, out) == [op |-> op, id |-> id, entry |-> entry, out |-> out]

InitDetail ==
    /\ index = Index_new(ProjectName)
    /\ file = AbsentFile
    /\ details = <<>>
    /\ \E n \in 0..MaxWords :
          \E entry \in WordLists(n) : call = DetailCall("entry", 0, entry, CorruptDetail)
    /\ faults = 0
    /\ assigned = {}

new_detail ==
    \E task_id \in TaskIds :
        /\ call' = DetailCall("TaskDetail_new", task_id, call.entry,
                              TaskDetail_new(task_id, call.entry))
        /\ UNCHANGED <<index, file, details, faults, assigned>>

NextDetail == new_detail

SpecDetail == InitDetail /\ [][NextDetail]_vars

\* ------------------------------------------------------------------ two invocations
\* Two commands run at the same time in one project, without faults.  Each is
\* a process of its own: it loads the index, calls one Index method on what it
\* loaded (which saves with force = true), prints the board and exits.  There
\* is no lock: the steps of the two interleave freely.  The file operations of
\* one method call are taken as one step; each method writes the index once.

Invocations == {1, 2}

RaceIds == 1..(MaxRaceTasks + 1)

RaceCommands ==
    {[op |-> "add", id |-> 0, status |-> "None"]}
    \cup {[op |-> "move", id |-> i, status |-> st] :
             i \in RaceIds, st \in {"Todo", "Doing", "Done"}}
    \cup {[op |-> "delete", id |-> i, status |-> "None"] : i \in RaceIds}

RaceEntry == CHOOSE entry \in Entries : TRUE

\* The project after `init` and n successful `add`.
RECURSIVE project(_)
project(n) ==
    IF n = 0
    THEN [index |-> Index_new(ProjectName), file |-> to_yaml(Index_new(ProjectName)),
          details |-> <<>>, result |-> "Ok"]
    ELSE LET before == project(n - 1) IN
         Index_create_task(from_yaml(before.file), before.file, before.details,
                           RaceEntry, "none")

\* Faulty variant of Manager_method: the method is called on the index as it is
\* on disk at that moment, not on the Index the command loaded.
Manager_method_on_file(cmd, idx, f, d) ==
    IF cmd.op = "add" THEN Index_create_task(from_yaml(f), f, d, RaceEntry, "none")
    ELSE IF cmd.op = "move"
    THEN Index_move_task(from_yaml(f), f, d, cmd.id, cmd.status, "none")
    ELSE Index_delete_task(from_yaml(f), f, d, cmd.id, "none")

\* The Index method a command calls on the Index it loaded.
Manager_method(cmd, idx, f, d) ==
    IF cmd.op = "add" THEN Index_create_task(idx, f, d, RaceEntry, "none")
    ELSE IF cmd.op = "move"
    THEN Index_move_task(idx, f, d, cmd.id, cmd.status, "none")
    ELSE Index_delete_task(idx, f, d, cmd.id, "none")

\* An invocation: its position (start, loaded, called, exited), its command,
\* the Index it loaded, how many writes of the index file preceded its load
\* (`read`), the rank of its own write among the writes (`wrote`, 0: none),
\* the result of its method and its exit status (-1: still running).
Invocation(pc, cmd, loaded, read, wrote, result, exit) ==
    [pc |-> pc, op |-> cmd.op, id |-> cmd.id, status |-> cmd.status,
     loaded |-> loaded, read |-> read, wrote |-> wrote, result |-> result,
     exit |-> exit]

command_of(c) == [op |-> c.op, id |-> c.id, status |-> c.status]

writes == Cardinality({p \in Invocations : call[p].wrote > 0})

InitRace ==
    /\ \E n \in 0..MaxRaceTasks :
          /\ file = project(n).file
          /\ details = project(n).details
    /\ index = [p \in Invocations |-> EmptyIndex]
    /\ call = [p \in Invocations |->
                  Invocation("start", [op |-> "none", id |-> 0, status |-> "None"],
                             EmptyIndex, 0, 0, "Ok", -1)]
    /\ faults = 0
    /\ assigned = {}

\* Index::load()
race_load(p) ==
    /\ call[p].pc = "start"
    /\ \E cmd \in RaceCommands :
          LET l == Index_load(file, FALSE) IN
          /\ index' = [index EXCEPT ![p] = l.index]
          /\ call' = [call EXCEPT ![p] =
                         IF l.ok
                         THEN Invocation("loaded", cmd, l.index, writes, 0, "Ok", -1)
                         ELSE Invocation("exited", cmd, l.index, writes, 0,
                                         "loading index", 1)]
    /\ UNCHANGED <<file, details, faults, assigned>>

\* index.create_task / move_task / delete_task
race_call(p) ==
    /\ call[p].pc = "loaded"
    /\ LET c == call[p]
           r == Manager_method(command_of(c), index[p], file, details)
       IN  /\ index' = [index EXCEPT ![p] = r.index]
           /\ file' = r.file
           /\ details' = r.details
           /\ call' = [call EXCEPT ![p] =
                          IF r.result = "Ok"
                          THEN Invocation("called", command_of(c), c.loaded, c.read,
                                          writes + 1, "Ok", -1)
                          ELSE Invocation("exited", command_of(c), c.loaded, c.read,
                                          0, r.result, 1)]
    /\ UNCHANGED <<faults, assigned>>

\* self.show(None)
race_show(p) ==
    /\ call[p].pc = "called"
    /\ LET c == call[p]
           e == then_show([index |-> index[p], file |-> file, details |-> details],
                          "none")
       IN  call' = [call EXCEPT ![p] =
                       Invocation("exited", command_of(c), c.loaded, c.read, c.wrote,
                                  e.result, e.exit)]
    /\ UNCHANGED <<index, file, details, faults, assigned>>

NextRace == \E p \in Invocations : race_load(p) \/ race_call(p) \/ race_show(p)

SpecRace == InitRace /\ [][NextRace]_vars

\* ------------------------------------------------------------------ claims
\* Checked under Spec: any sequence of save, create_task, move_task and
\* delete_task on one Index, with storage faults.

persisted_tasks(f) == IF f.kind = "yaml" THEN f.doc[1].tasks ELSE <<>>

history_ok(t) ==
    /\ t.changes # <<>>
    /\ t.changes[1] = Change("None", "Todo")
    /\ t.changes[Len(t.changes)].to = t.status

\* C1 History invariant: every task, in memory and in the persisted index, has a
\* non-empty changes sequence that starts with {from: None, to: Todo} and whose
\* last `to` is the task's current status.
C1_HistoryInvariant ==
    /\ \A i \in 1..Len(index.tasks) : history_ok(index.tasks[i])
    /\ \A i \in 1..Len(persisted_tasks(file)) : history_ok(persisted_tasks(file)[i])

C1_Witness ==
    /\ call.op = "move_task" /\ call.result = "Ok"
    /\ \E i \in 1..Len(index.tasks) :
          /\ Len(index.tasks[i].changes) >= 3
          /\ index.tasks[i].status = "Done"
    /\ file = to_yaml(index)

\* C2 Id uniqueness: no two tasks of the task list have the same id.
C2_IdsUnique ==
    \A i, j \in 1..Len(index.tasks) :
        index.tasks[i].id = index.tasks[j].id => i = j

C2_Witness ==
    /\ call.op = "create_task"
    /\ ids_of(index.tasks) = {2, 3}

\* C3 move_task(id, s) on an existing task whose status is not s appends exactly
\* the change {from: previous status, to: s} to that task and sets its status
\* to s; every other task, the order of the list, the task's id and priority
\* and the detail files are unchanged; the call is not refused whatever the two
\* statuses are, and when it returns Ok the persisted index is the new Index.
C3_MoveAppendsOneChange ==
    [][ LET pos == position(index.tasks, call'.id)
            old == index.tasks[pos]
        IN  (call'.op = "move_task" /\ pos # 0 /\ old.status # call'.status) =>
                /\ index'.meta = index.meta
                /\ Len(index'.tasks) = Len(index.tasks)
                /\ \A i \in 1..Len(index.tasks) : i # pos => index'.tasks[i] = index.tasks[i]
                /\ index'.tasks[pos] =
                      [id |-> old.id,
                       status |-> call'.status,
                       changes |-> Append(old.changes, Change(old.status, call'.status)),
                       priority |-> old.priority]
                /\ details' = details
                /\ call'.result \in {"Ok", "saving"}
                /\ call'.result = "Ok" => file' = to_yaml(index')
      ]_vars

C3_Witness ==
    /\ call.op = "move_task" /\ call.result = "Ok"
    /\ call.was = "Todo" /\ call.status = "Done"
    /\ call.id = 1 /\ Len(index.tasks) >= 2
    /\ file = to_yaml(index)

\* C4 No-op move: move_task(id, s) where s is the task's current status leaves
\* the task's changes and status (the whole in-memory Index) as they were.
C4_NoOpMove ==
    [][ LET pos == position(index.tasks, call'.id) IN
        (call'.op = "move_task" /\ pos # 0 /\ index.tasks[pos].status = call'.status) =>
            /\ index'.tasks[pos].changes = index.tasks[pos].changes
            /\ index'.tasks[pos].status = index.tasks[pos].status
            /\ index' = index
      ]_vars

C4_Witness ==
    /\ call.op = "move_task" /\ call.result = "Ok"
    /\ call.was = call.status
    /\ call.status = "Doing"

\* C6 Deletion consistency: after delete_task(id) returns Ok, get_task(id) is
\* None, the persisted index has no entry with that id, the detail file of that
\* id is gone, and the other tasks and detail files are as before.
C6_DeletionConsistency ==
    [][ (call'.op = "delete_task" /\ call'.result = "Ok") =>
            /\ get_task(index', call'.id) = <<>>
            /\ file'.kind = "yaml"
            /\ call'.id \notin ids_of(persisted_tasks(file'))
            /\ detail_path(call'.id) \notin DOMAIN details'
            /\ index'.tasks = SelectSeq(index.tasks, LAMBDA t : t.id # call'.id)
            /\ file' = to_yaml(index')
            /\ DOMAIN details' = DOMAIN details \ {detail_path(call'.id)}
            /\ \A p \in DOMAIN details' : details'[p] = details[p]
      ]_vars

C6_Witness ==
    /\ call.op = "delete_task" /\ call.result = "Ok"
    /\ call.was # "Absent"
    /\ Len(index.tasks) >= 1
    /\ DOMAIN details # {}

\* C7 Two-store consistency: as long as no storage fault has occurred, the
\* detail files are exactly those of the ids in the persisted index, and each
\* detail file holds the id of its task.  (The calls that fail without a fault,
\* deleting a task that has no detail file and save without force on an
\* existing file, change nothing.)
C7_TwoStoreConsistency ==
    faults = 0 =>
        /\ DOMAIN details = {detail_path(id) : id \in ids_of(persisted_tasks(file))}
        /\ \A id \in ids_of(persisted_tasks(file)) :
              /\ details[detail_path(id)].kind = "detail"
              /\ details[detail_path(id)].id = id

C7_Witness ==
    /\ faults = 0
    /\ call.op = "delete_task" /\ call.result = "Ok"
    /\ Len(persisted_tasks(file)) >= 2

\* C8 delete_task(id) attempts the detail-file deletion first: when the file is
\* absent the call fails on the deletion, and whenever the deletion fails the
\* call returns that error with the task list, the persisted index and the
\* detail files untouched.
C8_DeleteFailsEarly ==
    [][ call'.op = "delete_task" =>
            /\ detail_path(call'.id) \notin DOMAIN details =>
                  call'.result = "deleting file"
            /\ call'.result = "deleting file" =>
                  /\ index' = index
                  /\ file' = file
                  /\ details' = details
      ]_vars

C8_Witness ==
    /\ call.op = "delete_task" /\ call.result = "deleting file"
    /\ call.was # "Absent"
    /\ call.id \in ids_of(persisted_tasks(file))

\* C9 save(force = false) on an existing index file fails with the
\* already-exists error and leaves the file as it was; with force = true, or
\* with no file, save does not fail that way and, when it returns Ok, the file
\* holds the given Index.
C9_SaveRespectsForce ==
    [][ call'.op = "save" =>
            /\ (is_file(file) /\ ~call'.force) =>
                  /\ call'.result = "index already exists"
                  /\ file' = file
            /\ (call'.force \/ ~is_file(file)) =>
                  /\ call'.result # "index already exists"
                  /\ call'.result = "Ok" => file' = to_yaml(index)
            /\ index' = index
      ]_vars

C9_Witness ==
    /\ call.op = "save" /\ ~call.force
    /\ call.result = "index already exists"
    /\ file.kind = "yaml"
    /\ file # to_yaml(index)

\* Checked under SpecCli: any sequence of commands, with storage faults.

none_never_live(t) ==
    /\ t.status # "None"
    /\ \A k \in 1..Len(t.changes) :
          /\ t.changes[k].to # "None"
          /\ t.changes[k].from = "None" => k = 1

\* C5 The sentinel None is never a live state: whatever commands have run, and
\* whatever string `move` was given as status, no task (in memory or in the
\* persisted index) has status None, no change has to = None, and from = None
\* appears only in a task's first change.
C5_NoneNeverLive ==
    /\ \A i \in 1..Len(index.tasks) : none_never_live(index.tasks[i])
    /\ \A i \in 1..Len(persisted_tasks(file)) : none_never_live(persisted_tasks(file)[i])

C5_Witness ==
    /\ call.op = "move" /\ call.arg = <<"N","o","n","e">>
    /\ call.result = "invalid status" /\ call.exit = 1
    /\ \E i \in 1..Len(persisted_tasks(file)) :
          persisted_tasks(file)[i].status = "Doing"

\* C10 No storage failure is silently ignored: a command during which an index
\* or detail storage operation returned an error does not exit with status 0.
C10_NoSilentStorageFailure == call.storage => call.exit # 0

\* Checked under SpecSort: sorted_tasks_with_status applied to task lists in
\* any order, with and without priorities.

has_priority(t) == t.priority # <<>>

sorted_call == call.op = "sorted_tasks_with_status" /\ call.out # <<>>

\* C11 as stated: in the sequence sorted_tasks_with_status returns, every task
\* that has a priority precedes every task that has none, whatever the value,
\* and of two tasks that have a priority the one with the lower value is first.
C11_PrioritizedFirst ==
    sorted_call =>
        LET r == call.out[1] IN
        \A i, j \in 1..Len(r) :
            /\ (has_priority(r[i]) /\ ~has_priority(r[j])) => i < j
            /\ (has_priority(r[i]) /\ has_priority(r[j])
                    /\ r[i].priority[1] < r[j].priority[1]) => i < j

\* C11 amended: in the sequence sorted_tasks_with_status returns, every task
\* that has no priority precedes every task that has one, whatever the value,
\* and of two tasks that have a priority the one with the lower value is first.
C11_UnprioritizedFirst ==
    sorted_call =>
        LET r == call.out[1] IN
        \A i, j \in 1..Len(r) :
            /\ (~has_priority(r[i]) /\ has_priority(r[j])) => i < j
            /\ (has_priority(r[i]) /\ has_priority(r[j])
                    /\ r[i].priority[1] < r[j].priority[1]) => i < j

C11_Witness ==
    /\ sorted_call
    /\ Len(call.out[1]) = 3
    /\ call.out[1][1].priority = <<>>
    /\ call.out[1][2].priority = <<1>>
    /\ call.out[1][3].priority = <<2>>
    /\ index.tasks[1].priority = <<2>>
    /\ index.tasks[2].priority = <<1>>

\* C12 A task without a priority is placed before any task of the same status
\* that has a priority: the list [{id 1, a priority}, {id 2, no priority}] comes
\* back in the order [2, 1].
C12_NoPriorityBeforePriority ==
    sorted_call =>
        LET r == call.out[1] IN
        \A i, j \in 1..Len(r) :
            (~has_priority(r[i]) /\ has_priority(r[j])) => i < j

C12_Witness ==
    /\ sorted_call
    /\ Len(index.tasks) = 2
    /\ index.tasks[1].id = 1 /\ has_priority(index.tasks[1])
    /\ index.tasks[2].id = 2 /\ ~has_priority(index.tasks[2])
    /\ index.tasks[1].status = index.tasks[2].status
    /\ [i \in 1..Len(call.out[1]) |-> call.out[1][i].id] = <<2, 1>>

\* C13 No-priority tiebreak: when no task of the requested status has a
\* priority, the returned sequence is in ascending id order, whatever the order
\* of the task list.
C13_NoPriorityById ==
    (sorted_call /\ \A i \in 1..Len(call.out[1]) : ~has_priority(call.out[1][i])) =>
        LET r == call.out[1] IN
        \A i, j \in 1..Len(r) : i < j => r[i].id < r[j].id

C13_Witness ==
    /\ sorted_call
    /\ [i \in 1..Len(index.tasks) |-> index.tasks[i].id] = <<3, 1, 2>>
    /\ \A i \in 1..3 : ~has_priority(index.tasks[i]) /\ index.tasks[i].status = "Doing"
    /\ [i \in 1..Len(call.out[1]) |-> call.out[1][i].id] = <<1, 2, 3>>

\* C14 Empty-status sentinel and filter exactness: sorted_tasks_with_status(s)
\* returns None if and only if no task has status s; otherwise it returns a
\* non-empty sequence holding exactly the tasks of status s, each once, and in
\* either case the task list is as it was.
C14_SentinelAndFilter ==
    [][ call'.op = "sorted_tasks_with_status" =>
            LET of_status == {i \in 1..Len(index.tasks) :
                                 index.tasks[i].status = call'.status}
            IN  /\ call'.out = <<>> <=> of_status = {}
                /\ call'.out # <<>> =>
                      LET r == call'.out[1] IN
                      /\ Len(r) > 0
                      /\ Len(r) = Cardinality(of_status)
                      /\ \A k \in 1..Len(r) : r[k].status = call'.status
                      /\ \A i \in of_status :
                            Cardinality({k \in 1..Len(r) : r[k] = index.tasks[i]}) = 1
                /\ index' = index
      ]_vars

C14_Witness ==
    /\ sorted_call
    /\ call.status = "Doing"
    /\ Len(call.out[1]) = 2
    /\ Len(index.tasks) = 3
    /\ index.tasks[2].status = "Todo"

\* Checked under Spec; C16 under SpecIds.

ids_in_creation_order(tasks) == \A i \in 1..Len(tasks) : tasks[i].id = i

new_task(tasks) == tasks[Len(tasks)]

\* C15 Id monotonicity: create_task appends one task whose id is the largest
\* id of the list + 1, or 1 when the list is empty; and a list whose ids are
\* 1, 2, 3, ... in creation order (as the empty list is) stays so under every
\* call but delete_task, move_task included.
C15_IdMonotonicity ==
    [][ /\ call'.op = "create_task" =>
              /\ Len(index'.tasks) = Len(index.tasks) + 1
              /\ \A i \in 1..Len(index.tasks) : index'.tasks[i] = index.tasks[i]
              /\ new_task(index'.tasks).id =
                    IF index.tasks = <<>> THEN 1 ELSE Max(ids_of(index.tasks)) + 1
        /\ (ids_in_creation_order(index.tasks) /\ call'.op # "delete_task") =>
              ids_in_creation_order(index'.tasks)
      ]_vars

C15_Witness ==
    /\ call.op = "create_task" /\ call.result = "Ok"
    /\ [i \in 1..Len(index.tasks) |-> index.tasks[i].id] = <<1, 2>>
    /\ index.tasks[1].status = "Doing"
    /\ file = to_yaml(index)

\* C16 as stated: create_task never assigns an id that a task was given
\* before, the tasks deleted since included.
C16_IdsNeverReused ==
    [][ call'.op = "create_task" => new_task(index'.tasks).id \notin assigned ]_vars

\* C16 amended: create_task never assigns an id that a task of the list has,
\* nor one below an id of the list; an id given before is assigned again only
\* when no task with that id or a larger one is left in the list.
C16_ReusedOnlyAboveMax ==
    [][ call'.op = "create_task" =>
            LET id == new_task(index'.tasks).id IN
            /\ \A x \in ids_of(index.tasks) : x < id
            /\ id \in assigned => \A x \in assigned : x >= id => x \notin ids_of(index.tasks)
      ]_vars

\* The id 2 is assigned a second time, after tasks 2 and 3 were deleted.
C16_Witness ==
    /\ call.op = "create_task" /\ call.result = "Ok"
    /\ new_task(index.tasks).id = 2
    /\ assigned = {1, 2, 3}

\* C17 move_task(id, s) when no task of the list has that id returns the
\* not-found error and changes nothing: the in-memory Index, the index file
\* and the detail files are as before the call.
C17_MoveUnknownId ==
    [][ (call'.op = "move_task" /\ position(index.tasks, call'.id) = 0) =>
            /\ call'.result = "could not find task"
            /\ index' = index
            /\ file' = file
            /\ details' = details
      ]_vars

\* The Index in memory differs from the file, so a write would show.
C17_Witness ==
    /\ call.op = "move_task" /\ call.result = "could not find task"
    /\ call.was = "Absent"
    /\ Len(index.tasks) >= 1
    /\ file # to_yaml(index)

\* Checked under SpecDetail.

\* A tag-marker: a word that both starts and ends with ':'.
tag_marker(w) == w # <<>> /\ w[1] = ":" /\ w[Len(w)] = ":"

\* A word without its first and its last character.
stripped(w) == SubSeq(w, 2, Len(w) - 1)

\* C18 Tag/summary split: TaskDetail::new(id, words) yields summary = the words
\* that are not tag-markers joined by single spaces in input order, tags = the
\* tag-marker words in input order, each with only its leading and trailing ':'
\* stripped, description = empty and id = the given id; with no tag-marker
\* word, tags is empty.
C18_TagSummarySplit ==
    call.op = "TaskDetail_new" =>
        LET markers == SelectSeq(call.entry, tag_marker)
            others == SelectSeq(call.entry, LAMBDA w : ~tag_marker(w))
        IN  /\ call.out.summary = join(others, <<" ">>)
            /\ call.out.tags = [i \in 1..Len(markers) |-> stripped(markers[i])]
            /\ call.out.description = <<>>
            /\ call.out.id = call.id
            /\ markers = <<>> => call.out.tags = <<>>

\* What create_task does to the Index in memory and when it writes: the new
\* task is appended (status Todo, the single change None -> Todo, no priority);
\* the detail files are written only after the index file was; when the detail
\* write fails the index file holds the new entry.
created_in_order ==
    LET t == new_task(index'.tasks) IN
    /\ Len(index'.tasks) = Len(index.tasks) + 1
    /\ \A i \in 1..Len(index.tasks) : index'.tasks[i] = index.tasks[i]
    /\ t.status = "Todo"
    /\ t.changes = <<Change("None", "Todo")>>
    /\ t.priority = NoPriority
    /\ call'.result = "saving" => details' = details
    /\ details' # details => file' = to_yaml(index')
    /\ call'.result = "saving task detail" =>
          /\ file' = to_yaml(index')
          /\ t.id \in ids_of(persisted_tasks(file'))

only_mutation(cmd, base, now) ==
    IF cmd.op = "add"
    THEN /\ Len(now) = Len(base) + 1
         /\ SubSeq(now, 1, Len(base)) = base
         /\ new_task(now).id \notin ids_of(base)
    ELSE IF cmd.op = "move"
    THEN /\ Len(now) = Len(base)
         /\ \A i \in 1..Len(base) :
               IF base[i].id = cmd.id
               THEN now[i].id = cmd.id /\ now[i].status = cmd.status
               ELSE now[i] = base[i]
    ELSE now = SelectSeq(base, LAMBDA t : t.id # cmd.id)

\* p wrote the index file last, after q, having loaded it before q wrote; both
\* exited with status 0.
lost_update(p, q) ==
    /\ p # q
    /\ call[p].exit = 0 /\ call[q].exit = 0
    /\ call[q].wrote = 1 /\ call[p].wrote = 2
    /\ call[p].read = 0

\* C20 Lost update: whenever two invocations both exit with status 0 and the
\* one that wrote the index file last had loaded it before the other wrote,
\* the index file is the last writer's Index: what it loaded with only its own
\* mutation, the other invocation's mutation is not in it.
C20_LastWriterWins ==
    \A p, q \in Invocations :
        lost_update(p, q) =>
            /\ file = to_yaml(index[p])
            /\ only_mutation(command_of(call[p]), call[p].loaded.tasks,
                             from_yaml(file).tasks)

\* Invocation 1 added task 2 and exited 0; invocation 2, which had loaded the
\* index before, moved task 1 and wrote last: task 2 is not in the index file,
\* its detail file is there.
C20_Witness ==
    /\ lost_update(2, 1)
    /\ call[1].op = "add" /\ call[2].op = "move" /\ call[2].status = "Doing"
    /\ ids_of(index[1].tasks) = {1, 2}
    /\ ids_of(persisted_tasks(file)) = {1}
    /\ persisted_tasks(file)[1].status = "Doing"
    /\ detail_path(2) \in DOMAIN details

\* Checked under Spec.

\* Consecutive changes link up and no change goes from a status to itself.
chain_of_transitions(t) ==
    /\ \A k \in 1..(Len(t.changes) - 1) : t.changes[k + 1].from = t.changes[k].to
    /\ \A k \in 1..Len(t.changes) : t.changes[k].from # t.changes[k].to

\* C21 History is a chain of real transitions: for every task, in memory and
\* in the persisted index, each change starts from the status the one before
\* it ended in and no change has from = to; and over every call, a task that
\* is in the list before and after it keeps the changes it had, in place, the
\* sequence growing at its end only.
C21_HistoryChain ==
    [][ /\ \A i \in 1..Len(index.tasks) : chain_of_transitions(index.tasks[i])
        /\ \A i \in 1..Len(index'.tasks) : chain_of_transitions(index'.tasks[i])
        /\ \A i \in 1..Len(persisted_tasks(file')) :
              chain_of_transitions(persisted_tasks(file')[i])
        /\ \A i \in 1..Len(index.tasks), j \in 1..Len(index'.tasks) :
              index.tasks[i].id = index'.tasks[j].id =>
                  /\ Len(index'.tasks[j].changes) >= Len(index.tasks[i].changes)
                  /\ SubSeq(index'.tasks[j].changes, 1, Len(index.tasks[i].changes))
                        = index.tasks[i].changes
      ]_vars

\* A task moved to Doing and back: three changes, the last returns to Todo.
C21_Witness ==
    /\ call.op = "move_task" /\ call.result = "Ok"
    /\ \E i \in 1..Len(index.tasks) :
          index.tasks[i].changes =
              <<Change("None", "Todo"), Change("Todo", "Doing"), Change("Doing", "Todo")>>
    /\ file = to_yaml(index)

====
